---- MODULE Spec2Model ----
(***************************************************************************)
(* LEED Daylight Option 1 post-processing of honeybee-radiance-postprocess *)
(* (honeybee_radiance_postprocess/leed/leed.py).                           *)
(*                                                                         *)
(* Two specifications share this module:                                   *)
(*   Spec           leed_states_schedule, the shading-schedule derivation  *)
(*                  (exhaustive path, at most 6 light paths per grid);     *)
(*   SpecOptionOne  leed_option_one from the sensor-grid areas onwards:    *)
(*                  the summary of _leed_summary and the credits.          *)
(*                                                                         *)
(* Units.  Illuminance is in lux (integers).  A shade transmittance is in  *)
(* percent, so the multiplier 1 is 100 and 0.05 is 5, and a scaled         *)
(* illuminance is compared with 100 * 1000.  A percentage rounded to two   *)
(* decimals is an integer number of hundredths (55.00 % is 5500).  A       *)
(* sensor area is an integer number of area units.                         *)
(*                                                                         *)
(* numpy works on whole matrices whose columns are the sun-up hours; every *)
(* operation of leed_states_schedule acts on each column independently, so *)
(* the model walks the columns of a grid one step at a time and draws the  *)
(* column of the illuminance matrices when it gets there.                  *)
(***************************************************************************)
EXTENDS Integers, Sequences, FiniteSets, TLC

\* ------------------------------------------------------------------ bounds
\* number of sensor grids of a run
NumGrids == 2
\* number of sun-up hours of the year (columns of an illuminance matrix)
NumSunUp == 2
\* sensors of a grid that can receive light; the other sensors of a grid
\* read 0 lux at every hour
NumLit == 2
\* sensor count of a large grid (NumLit lit sensors, the others dark)
BigCount == 50
\* sensors of every grid in the runs of leed_option_one
NumSensors == 2

\* --------------------------------------------------------------- constants
Static == "__static_apertures__"
NegInf == 0 - 1
Grids == 1..NumGrids
Sensors == 1..NumLit

Range(f) == {f[x] : x \in DOMAIN f}
Min2(a, b) == IF a <= b THEN a ELSE b

\* results.sun_up_hours: hours of the year, here the morning of a Monday
SunUpHours == [i \in 1..NumSunUp |-> 30 + i]
\* occupancy_schedule_8_to_6: 8am to 6pm on weekdays (day 0 is a Sunday)
OccupancySchedule8To6(hoy) ==
    /\ (hoy % 24) \in 8..17
    /\ ((hoy \div 24) % 7) \in 1..5
\* filter_schedule_by_hours(results.sun_up_hours, schedule)[0]
OccPattern == [i \in 1..NumSunUp |-> OccupancySchedule8To6(SunUpHours[i])]

\* ------------------------------------------------------------------ inputs
\* grid_info['light_path'] of a grid: a list of lists of aperture groups
LightPathChoices ==
    { << <<"A">> >>,
      << <<"A">>, <<"B">> >>,
      << <<Static>>, <<"A">> >>,
      << <<Static, "B">> >> }
GridInfos == [count : {NumLit, BigCount}, light_path : LightPathChoices]

\* shade_transmittance: one value for all groups, or a mapping of groups
\* (0.05 for all groups; a mapping with 0.5 for group A and for the static
\* apertures; and 1.5 for all groups, a value outside 1 > value > 0)
DefaultShade == [kind |-> "scalar", value |-> 5, map |-> <<>>]
ShadeInputs ==
    { DefaultShade,
      [kind |-> "dict", value |-> 0, map |-> [x \in {"A", Static} |-> 50]],
      [kind |-> "scalar", value |-> 150, map |-> <<>>] }
\* the multipliers given explicitly by an input
ExplicitValues(shd) ==
    IF shd.kind = "dict" THEN Range(shd.map) ELSE {shd.value}

\* direct illuminance values a sensor can read for one light path and state
LuxTrans == {0, 600, 1000, 20000}
LuxStates == {0, 1000}

VARIABLES
    pc,                     \* position in the function that runs
    use_states,             \* argument use_states
    shade_transmittance,    \* argument shade_transmittance
    g,                      \* index in grids_info of the grid in the loop
    grid_info,              \* descriptor of that grid
    light_paths,            \* its light paths
    shade_transmittances,   \* light path -> [1, multiplier]
    shd_trans_dict,         \* aperture group -> multiplier, all grids
    combinations,           \* the enumerated combinations of the grid
    i,                      \* number of sun-up columns processed
    array,                  \* direct illuminance of the column, per light
                            \* path, state and sensor
    array_combinations,     \* masked overlit fraction of the column, per
                            \* combination (sensors overlit, or NegInf)
    array_combinations_filter, \* the occupied columns of that matrix
    max_indices,            \* per occupied column the index selected
    grid_combinations,      \* combinations of every finished grid
    grid_array_combinations, \* array_combinations_filter of every
                            \* finished grid
    grid_states_schedule,   \* schedule of the grid in the loop
    grid_schedules,         \* grid_states_schedule of every finished grid
    states_schedule,        \* building-wide schedule
    fail_to_comply,         \* grid name -> hours of the year
    grids_info,             \* leed_option_one: the grids of the run
    hb_model,               \* the sensor-grid meshes of the model file
    grid_areas,             \* per grid the sensor areas, or None
    pass_ase_grids,         \* per grid, per sensor: passes ASE
    pass_sda_grids,         \* per grid, per sensor: passes sDA
    pass_sda_blinds_up_grids,
    pass_sda_blinds_down_grids,
    summary,                \* summary of all grids combined
    summary_grid,           \* grid id -> summary of the grid
    returned,               \* what leed_option_one returned
    results,                \* the caller's results argument: a folder path
                            \* or an AnnualDaylight object and its schedule
    error,                  \* the exception leed_option_one raised, or None
    cache,                  \* per result type, the use of its cached arrays
    array_total,            \* SDA loop: total illuminance of the grid at the
                            \* occupied hour, per light path, state, sensor
    array_sda,              \* the combined array of the schedule, per sensor
    array_blinds_up,        \* the combined array with the blinds up
    array_blinds_down       \* the combined array with the blinds down

\* locals of leed_states_schedule
schedLocals == <<use_states, shade_transmittance, g, grid_info, light_paths,
                 shade_transmittances, shd_trans_dict, combinations, i,
                 array, array_combinations, array_combinations_filter,
                 max_indices, grid_combinations, grid_array_combinations,
                 grid_states_schedule, grid_schedules, states_schedule>>
\* locals of the SDA loop of leed_option_one
sdaLocals == <<array_total, array_sda, array_blinds_up, array_blinds_down>>
\* state of leed_option_one
optionVars == <<grids_info, hb_model, grid_areas, pass_ase_grids,
                pass_sda_grids, pass_sda_blinds_up_grids,
                pass_sda_blinds_down_grids, summary, summary_grid, returned,
                results, error, cache, sdaLocals>>
vars == <<pc, schedLocals, fail_to_comply, optionVars>>

\* ----------------------------------------------------- leed_states_schedule
RECURSIVE FlattenGroup(_, _)
FlattenGroup(lp, k) ==
    IF k > Len(lp) THEN <<>>
    ELSE (IF lp[k] = Static /\ Len(lp) > 1 THEN <<>> ELSE <<lp[k]>>)
         \o FlattenGroup(lp, k + 1)

\* lines 350-356: the light paths of a grid
RECURSIVE LightPaths(_)
LightPaths(light_path) ==
    IF light_path = <<>> THEN <<>>
    ELSE FlattenGroup(Head(light_path), 1) \o LightPaths(Tail(light_path))

\* the multiplier shade_transmittance_per_light_path gives a light path
ResolvedTransmittance(lp, shd) ==
    IF shd.kind = "dict"
    THEN IF lp \in DOMAIN shd.map THEN shd.map[lp]
         ELSE IF lp # Static THEN 5 ELSE 100
    ELSE IF lp # Static THEN shd.value ELSE 100

\* the candidate lists with the shaded value first
ShadeTransmittancePerLightPathShadedFirst(lps, shd, dict) ==
    [ transmittances |->
          [lp \in Range(lps) |-> <<ResolvedTransmittance(lp, shd), 100>>],
      dict |->
          [k \in DOMAIN dict \cup Range(lps) |->
              IF k \in Range(lps) THEN ResolvedTransmittance(k, shd)
              ELSE dict[k]] ]

\* lines 274-294: the candidate list [1, resolved value] of every light path
\* and the resolved values
ShadeTransmittancePerLightPath(lps, shd, dict) ==
    [ transmittances |->
          [lp \in Range(lps) |-> <<100, ResolvedTransmittance(lp, shd)>>],
      dict |->
          [k \in DOMAIN dict \cup Range(lps) |->
              IF k \in Range(lps) THEN ResolvedTransmittance(k, shd)
              ELSE dict[k]] ]

RECURSIVE ConcatAll(_)
ConcatAll(ss) == IF ss = <<>> THEN <<>> ELSE Head(ss) \o ConcatAll(Tail(ss))

\* the product with the candidates of every key taken last to first
RECURSIVE ProductReversed(_, _)
ProductReversed(keys, values) ==
    IF keys = <<>> THEN << <<>> >>
    ELSE LET rest == ProductReversed(Tail(keys), values)
             vs == values[Head(keys)]
         IN  ConcatAll([a \in 1..Len(vs) |->
                           [j \in 1..Len(rest) |->
                               <<vs[Len(vs) + 1 - a]>> \o rest[j]]])

\* itertools.product(*values), values[k] the candidates of key keys[k]
RECURSIVE Product(_, _)
Product(keys, values) ==
    IF keys = <<>> THEN << <<>> >>
    ELSE LET rest == Product(Tail(keys), values)
             vs == values[Head(keys)]
         IN  ConcatAll([a \in 1..Len(vs) |->
                           [j \in 1..Len(rest) |-> <<vs[a]>> \o rest[j]]])

\* [dict(zip(keys, v)) for v in itertools.product(*values)]
ZipCombinations(keys, values) ==
    LET prod == Product(keys, values)
        pos(lp) == CHOOSE k \in 1..Len(keys) : keys[k] = lp
    IN  [c \in 1..Len(prod) |-> [lp \in Range(keys) |-> prod[c][pos(lp)]]]

\* results._get_state_combinations(grid_info): every controllable group has
\* the states 0 and 1, the static apertures only the state 0
StateCombinations(lps) ==
    ZipCombinations(lps,
        [lp \in Range(lps) |-> IF lp = Static THEN <<0>> ELSE <<0, 1>>])

\* lines 385-398: the combined (scaled by 100) illuminance of a sensor
RECURSIVE CombinationArray(_, _, _, _, _)
CombinationArray(arr, combination, keys, s, states) ==
    IF keys = <<>> THEN 0
    ELSE LET lp == Head(keys)
             v == IF states THEN arr[lp][combination[lp]][s] * 100
                  ELSE IF combination[lp] = 100 THEN arr[lp][0][s] * 100
                  ELSE arr[lp][0][s] * combination[lp]
         IN  v + CombinationArray(arr, combination, Tail(keys), s, states)

\* line 401: (combination_array >= 1000).sum(axis=0), for one column
OverlitCount(arr, combination, keys, states) ==
    Cardinality({s \in Sensors :
        CombinationArray(arr, combination, keys, s, states) >= 1000 * 100})

\* argument direct_threshold of leed_option_one (lux)
DirectThreshold == 1000

\* lines 551-563 of leed_option_one: the direct illuminance of all light
\* paths of a grid at a sensor, no shading applied
RECURSIVE AseArray(_, _, _)
AseArray(arr, lps, s) ==
    IF lps = <<>> THEN 0
    ELSE arr[Head(lps)][0][s] + AseArray(arr, Tail(lps), s)

\* line 239 of _ase_hourly_percentage: (array > direct_threshold).sum(axis=0)
AseCountAbove(arr, lps) ==
    Cardinality({s \in Sensors : AseArray(arr, lps, s) > DirectThreshold})

\* the mask with the limit of 0.02 taken as 0.5
MaskedPercentageHalf(count, grid_count) ==
    IF count * 100 > 50 * grid_count THEN NegInf ELSE count

\* lines 400-404: count / grid_count, replaced by -inf when above 0.02
MaskedPercentage(count, grid_count) ==
    IF count * 100 > 2 * grid_count THEN NegInf ELSE count

\* the last index of the maximum
ArgMaxLast(seq) ==
    CHOOSE k \in 1..Len(seq) :
        /\ \A j \in 1..Len(seq) : seq[j] <= seq[k]
        /\ \A j \in (k + 1)..Len(seq) : seq[j] < seq[k]

\* numpy argmax: the first index of the maximum
ArgMax(seq) ==
    CHOOSE k \in 1..Len(seq) :
        /\ \A j \in 1..Len(seq) : seq[j] <= seq[k]
        /\ \A j \in 1..(k - 1) : seq[j] < seq[k]

\* the columns results._get_array can return for the light paths of a grid
Arrays(lps, states) ==
    IF states
    THEN {[lp \in Range(lps) |-> [st \in {0, 1} |->
              IF lp = Static /\ st = 1 THEN [s \in Sensors |-> 0]
              ELSE a[lp][st]]] :
          a \in [Range(lps) -> [{0, 1} -> [Sensors -> LuxStates]]]}
    ELSE {[lp \in Range(lps) |-> [st \in {0, 1} |->
              IF st = 0 THEN a[lp] ELSE [s \in Sensors |-> 0]]] :
          a \in [Range(lps) -> [Sensors -> LuxTrans]]}

EmptyDict == <<>>
\* Python's None, where the code holds None or an array, a dict or a tuple
None == <<>>

NoError == "none"

\* leed_option_one has not been called
OptionIdle ==
    /\ grids_info = <<>>
    /\ hb_model = [file |-> FALSE, meshes |-> <<>>]
    /\ grid_areas = <<>>
    /\ pass_ase_grids = <<>>
    /\ pass_sda_grids = <<>>
    /\ pass_sda_blinds_up_grids = <<>>
    /\ pass_sda_blinds_down_grids = <<>>
    /\ summary = EmptyDict
    /\ summary_grid = EmptyDict
    /\ returned = None
    /\ results = [is_object |-> TRUE, schedule |-> "leed"]
    /\ error = NoError
    /\ cache = [direct |-> "unused", total |-> "unused"]
    /\ array_total = EmptyDict
    /\ array_sda = <<>>
    /\ array_blinds_up = <<>>
    /\ array_blinds_down = <<>>

\* the locals of leed_states_schedule before it is called
ScheduleIdle ==
    /\ use_states = FALSE
    /\ shade_transmittance = DefaultShade
    /\ g = 0
    /\ grid_info = [count |-> 0, light_path |-> <<>>]
    /\ light_paths = <<>>
    /\ shade_transmittances = EmptyDict
    /\ shd_trans_dict = EmptyDict
    /\ combinations = <<>>
    /\ i = 0
    /\ array = EmptyDict
    /\ array_combinations = <<>>
    /\ array_combinations_filter = <<>>
    /\ max_indices = <<>>
    /\ grid_combinations = EmptyDict
    /\ grid_array_combinations = EmptyDict
    /\ grid_states_schedule = EmptyDict
    /\ grid_schedules = EmptyDict

Init ==
    /\ OptionIdle
    /\ pc = "grid"
    /\ use_states \in BOOLEAN
    /\ shade_transmittance \in
           (IF use_states THEN {DefaultShade} ELSE ShadeInputs)
    /\ g = 0
    /\ grid_info = [count |-> 0, light_path |-> <<>>]
    /\ light_paths = <<>>
    /\ shade_transmittances = EmptyDict
    /\ shd_trans_dict = EmptyDict
    /\ combinations = <<>>
    /\ i = 0
    /\ array = EmptyDict
    /\ array_combinations = <<>>
    /\ array_combinations_filter = <<>>
    /\ max_indices = <<>>
    /\ grid_combinations = EmptyDict
    /\ grid_array_combinations = EmptyDict
    /\ grid_states_schedule = EmptyDict
    /\ grid_schedules = EmptyDict
    /\ states_schedule = EmptyDict
    /\ fail_to_comply = EmptyDict

\* lines 347-380: the next grid of grids_info, its light paths, its
\* transmittances and its combinations
StartGrid ==
    /\ UNCHANGED optionVars
    /\ pc = "grid"
    /\ g < NumGrids
    /\ \E info \in GridInfos :
         LET lps == LightPaths(info.light_path)
             res == ShadeTransmittancePerLightPath(
                        lps, shade_transmittance, shd_trans_dict)
         IN  /\ grid_info' = info
             /\ light_paths' = lps
             /\ shade_transmittances' = res.transmittances
             /\ shd_trans_dict' = res.dict
             /\ combinations' =
                    IF use_states THEN StateCombinations(lps)
                    ELSE ZipCombinations(lps, res.transmittances)
    /\ g' = g + 1
    /\ i' = 0
    /\ array' = EmptyDict
    /\ array_combinations' = <<>>
    /\ array_combinations_filter' = <<>>
    /\ max_indices' = <<>>
    /\ grid_states_schedule' = EmptyDict
    /\ pc' = "hours"
    /\ UNCHANGED <<use_states, shade_transmittance, grid_schedules,
                   grid_combinations, grid_array_combinations,
                   states_schedule, fail_to_comply>>

\* lines 406-410: the hour of a column where every combination is -inf is
\* added to the record of the grid
RecordFailure(record, name, pct, hoy) ==
    IF \A c \in 1..Len(pct) : pct[c] = NegInf
    THEN [k \in DOMAIN record \cup {name} |->
             IF k \in DOMAIN record /\ k # name THEN record[k]
             ELSE IF k \in DOMAIN record THEN Append(record[k], hoy)
             ELSE <<hoy>>]
    ELSE record

\* lines 412-420: at an occupied column the combination of the first maximum
\* is appended to the schedule of every group but the static apertures
SelectCombination(schedule, combos, pct, occupied) ==
    IF occupied
    THEN LET chosen == combos[ArgMax(pct)]
         IN  [lp \in DOMAIN chosen \ {Static} |->
                 IF lp \in DOMAIN schedule
                 THEN Append(schedule[lp], chosen[lp])
                 ELSE <<chosen[lp]>>]
    ELSE schedule

\* lines 382-420 for one sun-up column
ScheduleHour ==
    /\ UNCHANGED optionVars
    /\ pc = "hours"
    /\ i < NumSunUp
    /\ pc' = "column"
    /\ \E arr \in Arrays(light_paths, use_states) :
         LET pct == [c \in 1..Len(combinations) |->
                        MaskedPercentage(
                            OverlitCount(arr, combinations[c], light_paths,
                                         use_states),
                            grid_info.count)]
         IN  /\ array' = arr
             /\ array_combinations' = pct
             /\ array_combinations_filter' =
                    IF OccPattern[i + 1]
                    THEN Append(array_combinations_filter, pct)
                    ELSE array_combinations_filter
             /\ max_indices' =
                    IF OccPattern[i + 1]
                    THEN Append(max_indices, ArgMax(pct))
                    ELSE max_indices
             /\ fail_to_comply' =
                    RecordFailure(fail_to_comply, g, pct, SunUpHours[i + 1])
             /\ grid_states_schedule' =
                    SelectCombination(grid_states_schedule, combinations,
                                      pct, OccPattern[i + 1])
    /\ i' = i + 1
    /\ UNCHANGED <<use_states, shade_transmittance, g, grid_info,
                   light_paths, shade_transmittances, shd_trans_dict,
                   combinations, grid_schedules, grid_combinations,
                   grid_array_combinations, states_schedule>>

\* the loops over the columns move on to the next sun-up hour
NextColumn ==
    /\ UNCHANGED optionVars
    /\ pc = "column"
    /\ i < NumSunUp
    /\ pc' = "hours"
    /\ array' = EmptyDict
    /\ array_combinations' = <<>>
    /\ UNCHANGED <<use_states, shade_transmittance, g, grid_info,
                   light_paths, shade_transmittances, shd_trans_dict,
                   combinations, i, array_combinations_filter, max_indices,
                   grid_combinations, grid_array_combinations,
                   grid_states_schedule, grid_schedules,
                   states_schedule, fail_to_comply>>

LogicalOr(a, b) == IF a # 0 \/ b # 0 THEN 1 ELSE 0

\* a merge that keeps the value of the grid processed last
MergeValueLast(a, b, states) == b

\* lines 428-431: the values of two grids for one aperture group
MergeValue(a, b, states) == IF states THEN LogicalOr(a, b) ELSE Min2(a, b)

\* lines 424-432
MergeSchedule(building, grid, states) ==
    [key \in DOMAIN building \cup DOMAIN grid |->
        IF key \notin DOMAIN grid THEN building[key]
        ELSE IF key \notin DOMAIN building THEN grid[key]
        ELSE [t \in 1..Len(grid[key]) |->
                 MergeValue(building[key][t], grid[key][t], states)]]

MergeGrid ==
    /\ UNCHANGED optionVars
    /\ pc = "column"
    /\ i = NumSunUp
    /\ states_schedule' =
           MergeSchedule(states_schedule, grid_states_schedule, use_states)
    /\ grid_schedules' =
           [k \in DOMAIN grid_schedules \cup {g} |->
               IF k = g THEN grid_states_schedule ELSE grid_schedules[k]]
    /\ grid_combinations' =
           [k \in DOMAIN grid_combinations \cup {g} |->
               IF k = g THEN combinations ELSE grid_combinations[k]]
    /\ grid_array_combinations' =
           [k \in DOMAIN grid_array_combinations \cup {g} |->
               IF k = g THEN array_combinations_filter
               ELSE grid_array_combinations[k]]
    /\ array_combinations_filter' = <<>>
    /\ max_indices' = <<>>
    /\ pc' = IF g < NumGrids THEN "grid" ELSE "annual"
    /\ grid_info' = [count |-> 0, light_path |-> <<>>]
    /\ light_paths' = <<>>
    /\ shade_transmittances' = EmptyDict
    /\ combinations' = <<>>
    /\ array' = EmptyDict
    /\ array_combinations' = <<>>
    /\ grid_states_schedule' = EmptyDict
    /\ UNCHANGED <<use_states, shade_transmittance, g, shd_trans_dict, i,
                   fail_to_comply>>

\* the hours of the year the model keeps of an annual series: the sun-up
\* hours and the hour before and after them
AnnualHours == 30..(31 + NumSunUp)

\* schedule_to_hoys(schedule, results.sun_up_hours): the occupied sun-up hours
OccupancyHoys == SelectSeq(SunUpHours, OccupancySchedule8To6)

\* results.values_to_annual(hours, values, timestep): values at the hours,
\* the base value 0 at every other hour of the year
ValuesToAnnual(hours, values) ==
    [hoy \in AnnualHours |->
        IF \E t \in 1..Len(hours) : hours[t] = hoy
        THEN values[CHOOSE t \in 1..Len(hours) : hours[t] = hoy]
        ELSE 0]

\* lines 434-453: the schedule of every aperture group as an annual series
MapToAnnual ==
    /\ UNCHANGED optionVars
    /\ pc = "annual"
    /\ states_schedule' =
           [key \in DOMAIN states_schedule |->
               ValuesToAnnual(OccupancyHoys, states_schedule[key])]
    /\ pc' = "done"
    /\ UNCHANGED <<use_states, shade_transmittance, g, grid_info,
                   light_paths, shade_transmittances, shd_trans_dict,
                   combinations, i, array, array_combinations,
                   array_combinations_filter, max_indices,
                   grid_combinations, grid_array_combinations,
                   grid_states_schedule, grid_schedules, fail_to_comply>>

Next == StartGrid \/ ScheduleHour \/ NextColumn \/ MergeGrid \/ MapToAnnual

Spec == Init /\ [][Next]_vars


\* ---------------------------------------------------------- leed_option_one
OptSensors == 1..NumSensors

\* grids_info of a run of n grids; the name and the id of a grid are its index
GridsInfo(n) ==
    [k \in 1..n |-> [full_id |-> k, name |-> k, count |-> NumSensors]]

\* s_grid.mesh.face_areas: the area of every sensor of a grid
Meshes ==
    { [s \in OptSensors |-> 2],
      [s \in OptSensors |-> IF s = 1 THEN 4 ELSE 1],
      [s \in OptSensors |-> IF s = 1 THEN 3 ELSE 2],
      [s \in OptSensors |-> IF s = 1 THEN 12 ELSE 3],
      [s \in OptSensors |-> IF s = 1 THEN 556 ELSE 455] }

\* the folder of the results holds no model file, or a model whose sensor
\* grids are the grids of the run, each with a mesh or without (None)
HbModels(n) ==
    {[file |-> FALSE, meshes |-> <<>>]} \cup
    {[file |-> TRUE, meshes |-> m] : m \in [1..n -> Meshes \cup {None}]}

\* the records leed_states_schedule can return for a run of n grids
FailRecords(n) ==
    {[k \in S |-> <<SunUpHours[NumSunUp]>>] : S \in SUBSET (1..n)}

\* per-sensor pass/fail vectors the metric formulas can give a grid
PassVectors == [OptSensors -> BOOLEAN]
\* the always-open and always-closed baselines of a grid
BlindsCases ==
    { <<[s \in OptSensors |-> TRUE], [s \in OptSensors |-> FALSE]>>,
      <<[s \in OptSensors |-> FALSE], [s \in OptSensors |-> TRUE]>> }

RECURSIVE SumSet(_, _)
SumSet(f, S) ==
    IF S = {} THEN 0
    ELSE LET x == CHOOSE y \in S : TRUE
         IN  f[x] + SumSet(f, S \ {x})

\* grid_area.sum()
ArraySum(area) == SumSet(area, DOMAIN area)
\* the passing area counted for every sensor, passing or not
AreaPassingAll(area, pass) == SumSet(area, DOMAIN pass)
\* grid_area[pass].sum()
AreaPassing(area, pass) == SumSet(area, {s \in DOMAIN pass : pass[s]})
\* pass.sum()
CountPassing(pass) == Cardinality({s \in DOMAIN pass : pass[s]})

RoundHalfEven(n, d) ==
    LET q == n \div d
        r == n % d
    IN  IF 2 * r < d THEN q
        ELSE IF 2 * r > d THEN q + 1
        ELSE IF q % 2 = 0 THEN q ELSE q + 1

\* the float num / den * 100, kept exact
Frac(num, den) == [num |-> num, den |-> den]
\* round(x, 2) of such a float, in hundredths of a percent
Round2(x) == RoundHalfEven(x.num * 10000, x.den)

\* lines 37-102
CreateGridSummary(info, sda_grid, sda_blinds_up_grid, sda_blinds_down_grid, ase_grid, pass_sda, pass_ase, total_floor, area_weighted) ==
    LET note == IF ase_grid.num * 100 > 10 * ase_grid.den
                THEN [ase_note |-> info.name] ELSE EmptyDict
        common == [name |-> info.name,
                   full_id |-> info.full_id,
                   ase |-> Round2(ase_grid),
                   sda |-> Round2(sda_grid),
                   sda_blinds_up |-> Round2(sda_blinds_up_grid),
                   sda_blinds_down |-> Round2(sda_blinds_down_grid)]
    IN  IF area_weighted
        THEN note @@ common @@
             [floor_area_passing_ase |-> pass_ase,
              floor_area_passing_sda |-> pass_sda,
              total_floor_area |-> total_floor]
        ELSE note @@ common @@
             [sensor_count_passing_ase |-> pass_ase,
              sensor_count_passing_sda |-> pass_sda,
              total_sensor_count |-> total_floor]

\* the length of zip(...) over lists of these lengths
RECURSIVE ZipLen(_)
ZipLen(lens) ==
    IF Len(lens) = 1 THEN lens[1]
    ELSE Min2(Head(lens), ZipLen(Tail(lens)))

\* a total that is assigned where it should be accumulated
SumSeqLast(seq) == IF seq = <<>> THEN 0 ELSE seq[Len(seq)]

RECURSIVE SumSeq(_)
SumSeq(seq) == IF seq = <<>> THEN 0 ELSE Head(seq) + SumSeq(Tail(seq))

\* lines 105-209
LeedSummary(pass_ase, pass_sda, infos, areas, pass_up, pass_down) ==
    IF \A k \in 1..Len(areas) : areas[k] # None
    THEN \* lines 128-166: weighted by mesh face area
         LET n == ZipLen(<<Len(pass_ase), Len(pass_sda), Len(areas),
                          Len(infos), Len(pass_up), Len(pass_down)>>)
             total(k) == ArraySum(areas[k])
             area_ase(k) == AreaPassing(areas[k], pass_ase[k])
             area_sda(k) == AreaPassing(areas[k], pass_sda[k])
             entry(k) ==
                 CreateGridSummary(
                     infos[k],
                     Frac(area_sda(k), total(k)),
                     Frac(AreaPassing(areas[k], pass_up[k]), total(k)),
                     Frac(AreaPassing(areas[k], pass_down[k]), total(k)),
                     Frac(total(k) - area_ase(k), total(k)),
                     area_sda(k), area_ase(k), total(k), TRUE)
             total_area == SumSeq([k \in 1..n |-> total(k)])
             total_area_pass_ase == SumSeq([k \in 1..n |-> area_ase(k)])
             total_area_pass_sda == SumSeq([k \in 1..n |-> area_sda(k)])
         IN  [summary |->
                  [ase |-> Round2(Frac(total_area - total_area_pass_ase,
                                       total_area)),
                   sda |-> Round2(Frac(total_area_pass_sda, total_area)),
                   floor_area_passing_ase |-> total_area_pass_ase,
                   floor_area_passing_sda |-> total_area_pass_sda,
                   total_floor_area |-> total_area],
              summary_grid |->
                  [id \in {infos[k].full_id : k \in 1..n} |->
                      entry(CHOOSE k \in 1..n : infos[k].full_id = id)]]
    ELSE \* lines 168-207: all sensor points cover the same area
         LET n == ZipLen(<<Len(pass_ase), Len(pass_sda), Len(infos),
                          Len(pass_up), Len(pass_down)>>)
             count(k) == infos[k].count
             count_ase(k) == CountPassing(pass_ase[k])
             count_sda(k) == CountPassing(pass_sda[k])
             entry(k) ==
                 CreateGridSummary(
                     infos[k],
                     Frac(count_sda(k), count(k)),
                     Frac(CountPassing(pass_up[k]), count(k)),
                     Frac(CountPassing(pass_down[k]), count(k)),
                     Frac(count(k) - count_ase(k), count(k)),
                     count_sda(k), count_ase(k), count(k), FALSE)
             total_count == SumSeq([k \in 1..n |-> count(k)])
             total_pass_ase == SumSeq([k \in 1..n |-> count_ase(k)])
             total_pass_sda == SumSeq([k \in 1..n |-> count_sda(k)])
         IN  [summary |->
                  [ase |-> Round2(Frac(total_count - total_pass_ase,
                                       total_count)),
                   sda |-> Round2(Frac(total_pass_sda, total_count)),
                   sensor_count_passing_ase |-> total_pass_ase,
                   sensor_count_passing_sda |-> total_pass_sda,
                   total_sensor_count |-> total_count],
              summary_grid |->
                  [id \in {infos[k].full_id : k \in 1..n} |->
                      entry(CHOOSE k \in 1..n : infos[k].full_id = id)]]

\* summary['credits'] is an integer or the string 'Exemplary performance'
NumericCredit(n) == [numeric |-> TRUE, value |-> n, text |-> ""]
ExemplaryPerformance ==
    [numeric |-> FALSE, value |-> 0, text |-> "Exemplary performance"]

\* the tiers tested from the lowest boundary up
BaseCreditAscending(sda) ==
    IF sda >= 4000 THEN 1
    ELSE IF sda >= 5500 THEN 2
    ELSE IF sda >= 7500 THEN 3
    ELSE 0

\* lines 667-674, the percentages in hundredths
BaseCredit(sda) ==
    IF sda >= 7500 THEN 3
    ELSE IF sda >= 5500 THEN 2
    ELSE IF sda >= 4000 THEN 1
    ELSE 0

\* the bonus with its two branches exchanged
WithBonusSwapped(base, grid_summaries) ==
    IF \A id \in DOMAIN grid_summaries : grid_summaries[id].sda >= 5500
    THEN IF base <= 2 THEN [numeric |-> FALSE, value |-> 0,
                            text |-> "Exemplary performance"]
         ELSE [numeric |-> TRUE, value |-> base + 1, text |-> ""]
    ELSE [numeric |-> TRUE, value |-> base, text |-> ""]

\* lines 676-680
WithBonus(base, grid_summaries) ==
    IF \A id \in DOMAIN grid_summaries : grid_summaries[id].sda >= 5500
    THEN IF base <= 2 THEN NumericCredit(base + 1)
         ELSE ExemplaryPerformance
    ELSE NumericCredit(base)

RECURSIVE SortedSeq(_)
SortedSeq(S) ==
    IF S = {} THEN <<>>
    ELSE LET m == CHOOSE x \in S : \A y \in S : x <= y
         IN  <<m>> \o SortedSeq(S \ {m})

\* the note attached but the credits left to the rule table
CreditsKeepsTable(sum, grid_summaries, record) ==
    IF record = EmptyDict
    THEN [credits |-> WithBonus(BaseCredit(sum.sda), grid_summaries)] @@ sum
    ELSE [credits |-> WithBonus(BaseCredit(sum.sda), grid_summaries),
          note |-> SortedSeq(DOMAIN record)] @@ sum

\* lines 665-689: the summary with its credits and, with failures, its note;
\* the note is kept as the list of the grid names it names
Credits(sum, grid_summaries, record) ==
    IF record = EmptyDict
    THEN [credits |-> WithBonus(BaseCredit(sum.sda), grid_summaries)] @@ sum
    ELSE [credits |-> NumericCredit(0),
          note |-> SortedSeq(DOMAIN record)] @@ sum

\* a custom states_schedule argument
CustomSchedule == [x \in {"A"} |-> <<100>>]

\* the results argument: the path of a results folder, or an AnnualDaylight
\* object with the schedule the caller gave it
CallerResults ==
    { [is_object |-> FALSE, schedule |-> "none"],
      [is_object |-> TRUE, schedule |-> "custom"],
      [is_object |-> TRUE, schedule |-> "leed"] }

\* the arguments states_schedule and results of a call
OptionInputs ==
    ({CustomSchedule} \X CallerResults) \cup
    ({None} \X {[is_object |-> TRUE, schedule |-> "custom"]})

\* what results._get_array does to the cache of a result type
GetArray(c, res_type) ==
    [c EXCEPT ![res_type] =
        IF @ \in {"released", "refetched"} THEN "refetched" ELSE "in_use"]

\* results.clear_cached_arrays(res_type)
ClearCachedArrays(c, res_type) == [c EXCEPT ![res_type] = "released"]

InitOptionOne ==
    /\ ScheduleIdle
    /\ fail_to_comply = EmptyDict
    /\ pc = "start"
    /\ \E inputs \in OptionInputs :
         /\ states_schedule = inputs[1]
         /\ results = inputs[2]
    /\ error = NoError
    /\ cache = [direct |-> "unused", total |-> "unused"]
    /\ array_total = EmptyDict
    /\ array_sda = <<>>
    /\ array_blinds_up = <<>>
    /\ array_blinds_down = <<>>
    /\ grids_info \in {GridsInfo(n) : n \in 1..NumGrids}
    /\ hb_model = [file |-> FALSE, meshes |-> <<>>]
    /\ grid_areas = <<>>
    /\ pass_ase_grids = <<>>
    /\ pass_sda_grids = <<>>
    /\ pass_sda_blinds_up_grids = <<>>
    /\ pass_sda_blinds_down_grids = <<>>
    /\ summary = EmptyDict
    /\ summary_grid = EmptyDict
    /\ returned = None

\* lines 506-527: the schedule of the results object is set to the LEED
\* schedule, and a custom states_schedule raises NotImplementedError
Prologue ==
    /\ pc = "start"
    /\ results' = IF results.is_object
                  THEN [results EXCEPT !.schedule = "leed"]
                  ELSE results
    /\ IF states_schedule = None
       THEN /\ pc' = "call"
            /\ error' = error
       ELSE /\ pc' = "raised"
            /\ error' = "NotImplementedError"
    /\ UNCHANGED <<schedLocals, sdaLocals, fail_to_comply, grids_info, hb_model,
                   grid_areas, pass_ase_grids, pass_sda_grids,
                   pass_sda_blinds_up_grids, pass_sda_blinds_down_grids,
                   summary, summary_grid, returned, cache>>

\* lines 520-523: leed_states_schedule returns its record; it has read the
\* direct illuminance of every grid
CallStatesSchedule ==
    /\ pc = "call"
    /\ fail_to_comply' \in FailRecords(Len(grids_info))
    /\ cache' = GetArray(cache, "direct")
    /\ pc' = "areas"
    /\ UNCHANGED <<schedLocals, sdaLocals, grids_info, hb_model, grid_areas,
                   pass_ase_grids, pass_sda_grids, pass_sda_blinds_up_grids,
                   pass_sda_blinds_down_grids, summary, summary_grid,
                   returned, results, error>>

\* lines 530-543: the areas of the grids that have a mesh, or a None for
\* every grid when that list is empty
GridAreas(model, n) ==
    LET areas == IF model.file
                 THEN SelectSeq(model.meshes, LAMBDA m : m # None)
                 ELSE <<>>
    IN  IF areas = <<>> THEN [k \in 1..n |-> None] ELSE areas

LoadGridAreas ==
    /\ pc = "areas"
    /\ \E model \in HbModels(Len(grids_info)) :
         /\ hb_model' = model
         /\ grid_areas' = GridAreas(model, Len(grids_info))
    /\ pc' = "ase"
    /\ UNCHANGED <<schedLocals, sdaLocals, fail_to_comply, grids_info, pass_ase_grids,
                   pass_sda_grids, pass_sda_blinds_up_grids,
                   pass_sda_blinds_down_grids, summary, summary_grid,
                   returned, results, error, cache>>

\* this step without the call of line 582
ClearDirectSkipped ==
    /\ pc = "clear_direct"
    /\ pc' = "sda"
    /\ UNCHANGED <<schedLocals, fail_to_comply, optionVars>>

\* line 582
ClearDirect ==
    /\ pc = "clear_direct"
    /\ cache' = ClearCachedArrays(cache, "direct")
    /\ pc' = "sda"
    /\ UNCHANGED <<schedLocals, sdaLocals, fail_to_comply, grids_info, hb_model,
                   grid_areas, pass_ase_grids, pass_sda_grids,
                   pass_sda_blinds_up_grids, pass_sda_blinds_down_grids,
                   summary, summary_grid, returned, results, error>>

\* line 658
ClearTotal ==
    /\ pc = "clear_total"
    /\ cache' = ClearCachedArrays(cache, "total")
    /\ pc' = "summary"
    /\ UNCHANGED <<schedLocals, sdaLocals, fail_to_comply, grids_info, hb_model,
                   grid_areas, pass_ase_grids, pass_sda_grids,
                   pass_sda_blinds_up_grids, pass_sda_blinds_down_grids,
                   summary, summary_grid, returned, results, error>>

\* lines 545-581: one pass vector for every pair of zip(grids_info,
\* grid_areas), from the direct illuminance of the grid
AnnualSunlightExposure ==
    /\ pc = "ase"
    /\ pass_ase_grids' \in
           [1..ZipLen(<<Len(grids_info), Len(grid_areas)>>) -> PassVectors]
    /\ cache' = GetArray(cache, "direct")
    /\ pc' = "clear_direct"
    /\ UNCHANGED <<schedLocals, sdaLocals, fail_to_comply, grids_info, hb_model,
                   grid_areas, pass_sda_grids, pass_sda_blinds_up_grids,
                   pass_sda_blinds_down_grids, summary, summary_grid,
                   returned, results, error>>

\* lines 584-657: three pass vectors for every grid of grids_info, from the
\* total illuminance of the grid
SpatialDaylightAutonomy ==
    /\ pc = "sda"
    /\ pass_sda_grids' \in [1..Len(grids_info) -> PassVectors]
    /\ \E blinds \in [1..Len(grids_info) -> BlindsCases] :
         /\ pass_sda_blinds_up_grids' =
                [k \in 1..Len(grids_info) |-> blinds[k][1]]
         /\ pass_sda_blinds_down_grids' =
                [k \in 1..Len(grids_info) |-> blinds[k][2]]
    /\ cache' = GetArray(cache, "total")
    /\ pc' = "clear_total"
    /\ UNCHANGED <<schedLocals, sdaLocals, fail_to_comply, grids_info, hb_model,
                   grid_areas, pass_ase_grids, summary, summary_grid,
                   returned, results, error>>

\* lines 660-663
Summarise ==
    /\ pc = "summary"
    /\ LET res == LeedSummary(pass_ase_grids, pass_sda_grids, grids_info,
                              grid_areas, pass_sda_blinds_up_grids,
                              pass_sda_blinds_down_grids)
       IN  /\ summary' = res.summary
           /\ summary_grid' = res.summary_grid
    /\ pc' = "credits"
    /\ UNCHANGED <<schedLocals, sdaLocals, fail_to_comply, grids_info, hb_model,
                   grid_areas, pass_ase_grids, pass_sda_grids,
                   pass_sda_blinds_up_grids, pass_sda_blinds_down_grids,
                   returned, results, error, cache>>

\* lines 665-689
AwardCredits ==
    /\ pc = "credits"
    /\ summary' = Credits(summary, summary_grid, fail_to_comply)
    /\ pc' = "return"
    /\ UNCHANGED <<schedLocals, sdaLocals, fail_to_comply, grids_info, hb_model,
                   grid_areas, pass_ase_grids, pass_sda_grids,
                   pass_sda_blinds_up_grids, pass_sda_blinds_down_grids,
                   summary_grid, returned, results, error, cache>>

\* lines 691-778: the results are returned
Return ==
    /\ pc = "return"
    /\ returned' = [summary |-> summary,
                    summary_grid |-> summary_grid,
                    fail_to_comply |-> fail_to_comply,
                    grids_info |-> grids_info]
    /\ pc' = "returned"
    /\ UNCHANGED <<schedLocals, sdaLocals, fail_to_comply, grids_info, hb_model,
                   grid_areas, pass_ase_grids, pass_sda_grids,
                   pass_sda_blinds_up_grids, pass_sda_blinds_down_grids,
                   summary, summary_grid, results, error, cache>>

NextOptionOne ==
    \/ Prologue
    \/ CallStatesSchedule
    \/ LoadGridAreas
    \/ AnnualSunlightExposure
    \/ ClearDirect
    \/ SpatialDaylightAutonomy
    \/ ClearTotal
    \/ Summarise
    \/ AwardCredits
    \/ Return

SpecOptionOne == InitOptionOne /\ [][NextOptionOne]_vars

\* ------------------------------------------- the SDA loop of leed_option_one
\* Specification SpecSda: lines 584-657 for the grids of a run, with one
\* occupied sun-up hour, from a schedule leed_states_schedule can return.

\* total illuminance values a sensor can read for one light path and state
LuxTotalTrans == {0, 200, 300, 6000}
LuxTotalStates == {0, 200}
\* argument threshold (lux) and argument target_time (percent)
Threshold == 300
TargetTime == 50
\* the occupied sun-up hours of the run
TotalOcc == Len(OccupancyHoys)

\* the matrices results._get_array(..., res_type='total') can return for the
\* light paths of a grid, at the occupied hour
TotalArrays(lps, states) ==
    IF states
    THEN {[lp \in Range(lps) |-> [st \in {0, 1} |->
              IF lp = Static /\ st = 1 THEN [s \in OptSensors |-> 0]
              ELSE a[lp][st]]] :
          a \in [Range(lps) -> [{0, 1} -> [OptSensors -> LuxTotalStates]]]}
    ELSE {[lp \in Range(lps) |-> [st \in {0, 1} |->
              IF st = 0 THEN a[lp] ELSE [s \in OptSensors |-> 0]]] :
          a \in [Range(lps) -> [OptSensors -> LuxTotalTrans]]}

\* results._array_from_states(grid_info, states=states_schedule): for every
\* light path the matrix of its scheduled state, the static apertures in
\* their only state
RECURSIVE ArrayFromStates(_, _, _, _)
ArrayFromStates(arr, lps, schedule, s) ==
    IF lps = <<>> THEN 0
    ELSE LET lp == Head(lps)
             st == IF lp = Static THEN 0 ELSE schedule[lp][1]
         IN  arr[lp][st][s] * 100 + ArrayFromStates(arr, Tail(lps), schedule, s)

\* lines 627-643, sum(arrays): the array of the transmittance schedule
RECURSIVE ScheduledArray(_, _, _, _)
ScheduledArray(arr, lps, schedule, s) ==
    IF lps = <<>> THEN 0
    ELSE LET lp == Head(lps)
             v == IF lp # Static THEN arr[lp][0][s] * schedule[lp][1]
                  ELSE arr[lp][0][s] * 100
         IN  v + ScheduledArray(arr, Tail(lps), schedule, s)

\* the always-open sum without the array of the static apertures
RECURSIVE BlindsUpArrayNoStatic(_, _, _)
BlindsUpArrayNoStatic(arr, lps, s) ==
    IF lps = <<>> THEN 0
    ELSE (IF Head(lps) = Static THEN 0 ELSE arr[Head(lps)][0][s] * 100)
         + BlindsUpArrayNoStatic(arr, Tail(lps), s)

\* lines 610-613, 624, 636, 641 and 645: sum(arrays_blinds_up)
RECURSIVE BlindsUpArray(_, _, _)
BlindsUpArray(arr, lps, s) ==
    IF lps = <<>> THEN 0
    ELSE arr[Head(lps)][0][s] * 100 + BlindsUpArray(arr, Tail(lps), s)

\* the closed state of every light path appended once
RECURSIVE BlindsDownArrayOnce(_, _, _, _, _)
BlindsDownArrayOnce(arr, lps, states, dict, s) ==
    IF lps = <<>> THEN 0
    ELSE LET lp == Head(lps)
             v == IF lp = Static THEN arr[lp][0][s] * 100
                  ELSE IF states THEN arr[lp][1][s] * 100
                  ELSE arr[lp][0][s] * dict[lp]
         IN  v + BlindsDownArrayOnce(arr, Tail(lps), states, dict, s)

\* lines 614-618, 625, 637-638, 642 and 646: sum(arrays_blinds_down); in
\* state mode the array of state 1 is appended at line 617 and at line 618
RECURSIVE BlindsDownArray(_, _, _, _, _)
BlindsDownArray(arr, lps, states, dict, s) ==
    IF lps = <<>> THEN 0
    ELSE LET lp == Head(lps)
             v == IF lp = Static THEN arr[lp][0][s] * 100
                  ELSE IF states
                       THEN arr[lp][1][s] * 100 + arr[lp][1][s] * 100
                  ELSE arr[lp][0][s] * dict[lp]
         IN  v + BlindsDownArray(arr, Tail(lps), states, dict, s)

\* da_array2d(array, total_occ, threshold): per sensor the percentage of
\* the occupied hours at or above the threshold
DaArray2d(arr, total_occ, threshold) ==
    [s \in DOMAIN arr |->
        ((IF arr[s] >= threshold * 100 THEN 1 ELSE 0) * 100) \div total_occ]

\* lines 655-657: da_grid >= target_time
PassSda(da_grid) == [s \in DOMAIN da_grid |-> da_grid[s] >= TargetTime]

\* the aperture groups of the runs
Groups == {"A", "B"}

\* what leed_states_schedule returns to leed_option_one: the mode, the
\* global transmittance map and, for every aperture group, the value of the
\* schedule at the occupied hour
ScheduleResults ==
    { [use_states |-> TRUE, shade |-> DefaultShade,
       dict |-> ShadeTransmittancePerLightPath(
                    <<Static, "A", "B">>, DefaultShade, EmptyDict).dict,
       schedule |-> [lp \in Groups |-> <<v[lp]>>]] :
      v \in [Groups -> {0, 1}] }
    \cup
    { [use_states |-> FALSE, shade |-> shd,
       dict |-> ShadeTransmittancePerLightPath(
                    <<Static, "A", "B">>, shd, EmptyDict).dict,
       schedule |-> [lp \in Groups |->
           <<IF v[lp] = 0 THEN 100
             ELSE ShadeTransmittancePerLightPath(
                      <<Static, "A", "B">>, shd, EmptyDict).dict[lp]>>]] :
      shd \in ShadeInputs, v \in [Groups -> {0, 1}] }

\* the models of the runs: no model file, or a model with a mesh of unequal
\* face areas for every grid
SdaModels ==
    { m \in HbModels(NumGrids) :
        m.file => \A k \in 1..NumGrids :
                      m.meshes[k] = [s \in OptSensors |->
                                        IF s = 1 THEN 12 ELSE 3] }

\* lines 551-581 have run: every sensor of every grid passes ASE
AsePassed == [k \in 1..NumGrids |-> [s \in OptSensors |-> TRUE]]

InitSda ==
    /\ grids_info = <<>>
    /\ \E model \in SdaModels :
         /\ hb_model = model
         /\ grid_areas = GridAreas(model, NumGrids)
    /\ pass_ase_grids = AsePassed
    /\ pass_sda_grids = <<>>
    /\ pass_sda_blinds_up_grids = <<>>
    /\ pass_sda_blinds_down_grids = <<>>
    /\ summary = EmptyDict
    /\ summary_grid = EmptyDict
    /\ returned = None
    /\ results = [is_object |-> TRUE, schedule |-> "leed"]
    /\ error = NoError
    /\ cache = [direct |-> "released", total |-> "unused"]
    /\ array_total = EmptyDict
    /\ array_sda = <<>>
    /\ array_blinds_up = <<>>
    /\ array_blinds_down = <<>>
    /\ pc = "sda_grid"
    /\ \E res \in ScheduleResults :
         /\ use_states = res.use_states
         /\ shade_transmittance = res.shade
         /\ shd_trans_dict = res.dict
         /\ states_schedule = res.schedule
    /\ g = 0
    /\ grid_info = [count |-> 0, light_path |-> <<>>]
    /\ light_paths = <<>>
    /\ shade_transmittances = EmptyDict
    /\ combinations = <<>>
    /\ i = 0
    /\ array = EmptyDict
    /\ array_combinations = <<>>
    /\ array_combinations_filter = <<>>
    /\ max_indices = <<>>
    /\ grid_combinations = EmptyDict
    /\ grid_array_combinations = EmptyDict
    /\ grid_states_schedule = EmptyDict
    /\ grid_schedules = EmptyDict
    /\ fail_to_comply = EmptyDict

\* lines 589-646 for the next grid: its light paths and the three combined
\* arrays
SdaArrays ==
    /\ pc = "sda_grid"
    /\ g < NumGrids
    /\ \E info \in [count : {NumSensors}, light_path : LightPathChoices] :
         LET lps == LightPaths(info.light_path)
         IN  /\ grid_info' = info
             /\ light_paths' = lps
             /\ \E arr \in TotalArrays(lps, use_states) :
                  /\ array_total' = arr
                  /\ array_sda' =
                         [s \in OptSensors |->
                             IF use_states
                             THEN ArrayFromStates(arr, lps, states_schedule, s)
                             ELSE ScheduledArray(arr, lps, states_schedule, s)]
                  /\ array_blinds_up' =
                         [s \in OptSensors |-> BlindsUpArray(arr, lps, s)]
                  /\ array_blinds_down' =
                         [s \in OptSensors |->
                             BlindsDownArray(arr, lps, use_states,
                                             shd_trans_dict, s)]
    /\ g' = g + 1
    /\ cache' = GetArray(cache, "total")
    /\ pc' = "sda_da"
    /\ UNCHANGED <<use_states, shade_transmittance, shade_transmittances,
                   shd_trans_dict, combinations, i, array,
                   array_combinations, array_combinations_filter,
                   max_indices, grid_combinations, grid_array_combinations,
                   grid_states_schedule, grid_schedules, states_schedule,
                   fail_to_comply, grids_info, hb_model, grid_areas,
                   pass_ase_grids, pass_sda_grids, pass_sda_blinds_up_grids,
                   pass_sda_blinds_down_grids, summary, summary_grid,
                   returned, results, error>>

\* lines 647-657: the daylight autonomy of the three arrays and the pass
\* vectors of the grid
SdaPass ==
    /\ pc = "sda_da"
    /\ pass_sda_grids' =
           Append(pass_sda_grids,
                  PassSda(DaArray2d(array_sda, TotalOcc, Threshold)))
    /\ pass_sda_blinds_up_grids' =
           Append(pass_sda_blinds_up_grids,
                  PassSda(DaArray2d(array_blinds_up, TotalOcc, Threshold)))
    /\ pass_sda_blinds_down_grids' =
           Append(pass_sda_blinds_down_grids,
                  PassSda(DaArray2d(array_blinds_down, TotalOcc, Threshold)))
    /\ grids_info' =
           Append(grids_info,
                  [full_id |-> g, name |-> g, count |-> grid_info.count])
    /\ pc' = IF g < NumGrids THEN "sda_grid" ELSE "sda_done"
    /\ array_total' = EmptyDict
    /\ array_sda' = <<>>
    /\ array_blinds_up' = <<>>
    /\ array_blinds_down' = <<>>
    /\ UNCHANGED <<schedLocals, fail_to_comply, hb_model, grid_areas,
                   pass_ase_grids, summary, summary_grid, returned, results,
                   error, cache>>

\* line 658
SdaClearTotal ==
    /\ pc = "sda_done"
    /\ cache' = ClearCachedArrays(cache, "total")
    /\ pc' = "summary"
    /\ UNCHANGED <<schedLocals, sdaLocals, fail_to_comply, grids_info,
                   hb_model, grid_areas, pass_ase_grids, pass_sda_grids,
                   pass_sda_blinds_up_grids, pass_sda_blinds_down_grids,
                   summary, summary_grid, returned, results, error>>

NextSda == SdaArrays \/ SdaPass \/ SdaClearTotal \/ Summarise

SpecSda == InitSda /\ [][NextSda]_vars

\* ------------------------------------------------------------------ claims
Last(seq) == seq[Len(seq)]

\* the hour of the column just processed is in the record of the grid
InRecord ==
    /\ g \in DOMAIN fail_to_comply
    /\ SunUpHours[i] \in Range(fail_to_comply[g])

\* the combination the grid selected at the column just processed
Selected == combinations[Last(max_indices)]

\* sensors of the grid overlit at the column under a combination
Overlit(combination) ==
    OverlitCount(array, combination, light_paths, use_states)

AboveTwoPercent(count) == count * 100 > 2 * grid_info.count

NoCombinationComplies ==
    \A c \in 1..Len(combinations) : AboveTwoPercent(Overlit(combinations[c]))

\* C1: at every occupied hour of a grid that is not in the grid's
\* compliance-failure record the selected combination keeps the overlit
\* fraction at or below 2%, and at every hour in the record every
\* enumerated combination is above 2%.
C1_SelectedComplies ==
    pc = "column" =>
        /\ (OccPattern[i] /\ ~InRecord) => ~AboveTwoPercent(Overlit(Selected))
        /\ InRecord => NoCombinationComplies

\* an occupied hour where the open configuration is above 2% and the grid
\* selected a complying one, in a run that also has a recorded hour
C1_Witness ==
    /\ pc = "column"
    /\ OccPattern[i]
    /\ ~InRecord
    /\ AboveTwoPercent(Overlit(combinations[1]))
    /\ ~AboveTwoPercent(Overlit(Selected))
    /\ fail_to_comply # EmptyDict

\* C2: the record of a grid holds exactly the occupied hours at which every
\* enumerated combination is invalid; a sun-up hour outside the occupancy
\* schedule is never recorded.
C2_OnlyOccupiedHoursRecorded ==
    pc = "column" => (InRecord <=> (OccPattern[i] /\ NoCombinationComplies))

\* the grids processed so far that control an aperture group
GridsOf(key) ==
    {k \in DOMAIN grid_schedules : key \in DOMAIN grid_schedules[k]}

\* OR, respectively minimum, of the values the grids selected
Reconciled(key, t) ==
    IF use_states
    THEN IF \E k \in GridsOf(key) : grid_schedules[k][key][t] # 0
         THEN 1 ELSE 0
    ELSE CHOOSE v \in {grid_schedules[k][key][t] : k \in GridsOf(key)} :
             \A k \in GridsOf(key) : v <= grid_schedules[k][key][t]

\* the building-wide schedule when the grids are merged in the order p
RECURSIVE MergeInOrder(_, _)
MergeInOrder(p, n) ==
    IF n = 0 THEN EmptyDict
    ELSE MergeSchedule(MergeInOrder(p, n - 1), grid_schedules[p[n]],
                       use_states)

Orders(n) == {p \in [1..n -> 1..n] : \A a, b \in 1..n : p[a] = p[b] => a = b}

\* the schedules another grid with the groups of the current grid can have
\* left in the building-wide schedule: every group open or shaded throughout
OtherGridSchedules ==
    { [key \in DOMAIN grid_states_schedule |->
          [t \in 1..Len(grid_states_schedule[key]) |->
              IF use_states THEN x[key]
              ELSE IF x[key] = 0 THEN 100 ELSE shd_trans_dict[key]]] :
      x \in [DOMAIN grid_states_schedule -> {0, 1}] }

\* the schedule of the current grid, as far as it is derived, merges with
\* the schedule of another grid to the OR, respectively the minimum, in
\* either order
CurrentGridMerges ==
    \A other \in OtherGridSchedules :
        LET ab == MergeSchedule(other, grid_states_schedule, use_states)
            ba == MergeSchedule(grid_states_schedule, other, use_states)
        IN  \A key \in DOMAIN grid_states_schedule :
                \A t \in 1..Len(grid_states_schedule[key]) :
                    /\ ab[key][t] = ba[key][t]
                    /\ ab[key][t] =
                           IF use_states
                           THEN LogicalOr(other[key][t],
                                          grid_states_schedule[key][t])
                           ELSE Min2(other[key][t],
                                     grid_states_schedule[key][t])

\* C8: for every aperture group shared by several grids the building-wide
\* schedule is, hour by hour, the logical OR (state mode) or the minimum
\* (transmittance mode) of the values of the grids, and it is the same for
\* every order in which the grids are merged.
C8_MergeIsOrMin ==
    /\ pc \in {"grid", "annual"} =>
        \A key \in DOMAIN states_schedule :
            Cardinality(GridsOf(key)) >= 2 =>
                /\ \A t \in 1..Len(states_schedule[key]) :
                       states_schedule[key][t] = Reconciled(key, t)
                /\ \A p \in Orders(g) :
                       MergeInOrder(p, g)[key] = states_schedule[key]
    /\ pc = "done" =>
        \A key \in DOMAIN states_schedule :
            Cardinality(GridsOf(key)) >= 2 =>
                \A t \in 1..Len(OccupancyHoys) :
                    states_schedule[key][OccupancyHoys[t]] = Reconciled(key, t)
    /\ pc = "column" => CurrentGridMerges

\* two grids share an aperture group and selected different values for it
C8_Witness ==
    /\ pc = "annual"
    /\ \E key \in DOMAIN states_schedule :
         /\ Cardinality(GridsOf(key)) >= 2
         /\ \E t \in 1..Len(states_schedule[key]) :
              /\ grid_schedules[1][key][t] # grid_schedules[2][key][t]
              /\ states_schedule[key][t] # grid_schedules[NumGrids][key][t]

\* --------------------------------------------------- claims, leed_option_one
\* the credits are set
Credited == pc \in {"return", "returned"}

AreaWeighted == "total_floor_area" \in DOMAIN summary

AllGridIds == {grids_info[k].full_id : k \in 1..Len(grids_info)}

EveryGridAtLeast55 ==
    \A id \in DOMAIN summary_grid : summary_grid[id].sda >= 5500

\* C3: with a non-empty compliance-failure record the credit is 0 whatever
\* the SDA values are, a note names every grid of the record, and the run
\* goes on to return its results; with an empty record there is no note.
C3_FailureForcesZero ==
    /\ Credited =>
        IF fail_to_comply # EmptyDict
        THEN /\ summary.credits = NumericCredit(0)
             /\ "note" \in DOMAIN summary
             /\ Range(summary.note) = DOMAIN fail_to_comply
        ELSE "note" \notin DOMAIN summary
    /\ pc = "returned" =>
        /\ returned.summary = summary
        /\ returned.summary_grid = summary_grid
        /\ returned.fail_to_comply = fail_to_comply
        /\ returned.grids_info = grids_info

\* a returned run whose SDA values alone would give the highest credit and
\* whose record names every grid
C3_Witness ==
    /\ pc = "returned"
    /\ DOMAIN fail_to_comply = AllGridIds
    /\ Len(grids_info) = NumGrids
    /\ summary.sda >= 7500
    /\ EveryGridAtLeast55
    /\ DOMAIN summary_grid = AllGridIds

\* the rule table of the credit
TableCredit(sda, bonus) ==
    LET base == CHOOSE b \in 0..3 :
                    /\ b = 3 <=> sda >= 7500
                    /\ b = 2 <=> (sda >= 5500 /\ sda < 7500)
                    /\ b = 1 <=> (sda >= 4000 /\ sda < 5500)
    IN  IF ~bonus THEN NumericCredit(base)
        ELSE IF base = 3 THEN ExemplaryPerformance
        ELSE NumericCredit(base + 1)

\* C4: with an empty record the credit is the rule table applied to the
\* building SDA and the grid SDA values of the summary: 3 from 75, 2 from 55,
\* 1 from 40, else 0; one more when every grid is at 55 or above, a 3
\* becoming 'Exemplary performance'; the result is 0, 1, 2, 3 or that marker.
C4_CreditRuleTable ==
    (Credited /\ fail_to_comply = EmptyDict) =>
        /\ summary.credits = TableCredit(summary.sda, EveryGridAtLeast55)
        /\ summary.credits \in
               {NumericCredit(n) : n \in 0..3} \cup {ExemplaryPerformance}

\* tier 2 without the bonus
C4_Witness ==
    /\ pc = "returned"
    /\ fail_to_comply = EmptyDict
    /\ summary.sda >= 5500
    /\ summary.sda < 7500
    /\ ~EveryGridAtLeast55
    /\ summary.credits = NumericCredit(2)

\* passing / total * 100 >= pct, on the values before any rounding
ExactAtLeast(passing, total, pct) == passing * 100 >= pct * total

BuildingExactAtLeast(pct) ==
    IF AreaWeighted
    THEN ExactAtLeast(summary.floor_area_passing_sda,
                      summary.total_floor_area, pct)
    ELSE ExactAtLeast(summary.sensor_count_passing_sda,
                      summary.total_sensor_count, pct)

GridExactAtLeast(id, pct) ==
    IF AreaWeighted
    THEN ExactAtLeast(summary_grid[id].floor_area_passing_sda,
                      summary_grid[id].total_floor_area, pct)
    ELSE ExactAtLeast(summary_grid[id].sensor_count_passing_sda,
                      summary_grid[id].total_sensor_count, pct)

\* C5: the tier comparisons are made on the full-precision SDA values, so
\* the credit is the rule table applied to the unrounded building SDA and
\* the unrounded grid SDA values.
C5_FullPrecisionComparisons ==
    (Credited /\ fail_to_comply = EmptyDict) =>
        LET base == IF BuildingExactAtLeast(75) THEN 3
                    ELSE IF BuildingExactAtLeast(55) THEN 2
                    ELSE IF BuildingExactAtLeast(40) THEN 1
                    ELSE 0
            bonus == \A id \in DOMAIN summary_grid : GridExactAtLeast(id, 55)
        IN  summary.credits =
                IF ~bonus THEN NumericCredit(base)
                ELSE IF base = 3 THEN ExemplaryPerformance
                ELSE NumericCredit(base + 1)

\* the order 0 < 1 < 2 < 3 < 'Exemplary performance'
Rank(credit) == IF credit.numeric THEN credit.value ELSE 4

\* the credit of the run had its building SDA been b
CreditFor(b) ==
    Credits([summary EXCEPT !.sda = b], summary_grid, fail_to_comply).credits

SdaSamples ==
    {0, 3999, 4000, 5499, 5500, 7400, 7499, 7500, 7600, 10000}

\* C6: with no failures and every grid at 55% or above the credit does not
\* decrease when the building SDA increases, and from 74% to 76% it rises
\* from 3 (tier 2 with the bonus) to 'Exemplary performance'.
C6_CreditMonotone ==
    (Credited /\ fail_to_comply = EmptyDict /\ EveryGridAtLeast55) =>
        /\ \A b \in SdaSamples :
              /\ b >= summary.sda =>
                     Rank(CreditFor(b)) >= Rank(summary.credits)
              /\ b <= summary.sda =>
                     Rank(CreditFor(b)) <= Rank(summary.credits)
        /\ \A a, b \in SdaSamples :
              a <= b => Rank(CreditFor(a)) <= Rank(CreditFor(b))
        /\ CreditFor(7400) = NumericCredit(3)
        /\ CreditFor(7600) = ExemplaryPerformance
        /\ Rank(CreditFor(7400)) < Rank(CreditFor(7600))

\* a run of tier 2 with the bonus
C6_Witness ==
    /\ pc = "returned"
    /\ fail_to_comply = EmptyDict
    /\ EveryGridAtLeast55
    /\ summary.sda >= 5500
    /\ summary.sda < 7500
    /\ summary.credits = NumericCredit(3)

\* an area-weighted run of two grids, no failures, one grid with an SDA of
\* exactly 80% and the other of exactly 60%
TwoGrids8060 ==
    /\ Credited
    /\ fail_to_comply = EmptyDict
    /\ AreaWeighted
    /\ Len(grids_info) = 2
    /\ DOMAIN summary_grid = AllGridIds
    /\ \E a, b \in AllGridIds :
         /\ a # b
         /\ summary_grid[a].floor_area_passing_sda * 100
                = 80 * summary_grid[a].total_floor_area
         /\ summary_grid[b].floor_area_passing_sda * 100
                = 60 * summary_grid[b].total_floor_area

\* the area-weighted mean of the grid SDA values 80% and 60%, rounded
MeanOf8060 ==
    LET a == CHOOSE x \in AllGridIds :
                 summary_grid[x].floor_area_passing_sda * 100
                     = 80 * summary_grid[x].total_floor_area
        b == CHOOSE x \in AllGridIds : x # a
    IN  RoundHalfEven(8000 * summary_grid[a].total_floor_area
                          + 6000 * summary_grid[b].total_floor_area,
                      summary_grid[a].total_floor_area
                          + summary_grid[b].total_floor_area)

\* C7 as stated: two grids of SDA 80% and 60%, area-weighted, no failures:
\* the building SDA is the area-weighted mean and the credit is
\* 'Exemplary performance'.
C7_AlwaysExemplary ==
    TwoGrids8060 =>
        /\ summary.sda = MeanOf8060
        /\ summary.credits = ExemplaryPerformance

\* C7 as amended: the building SDA is the area-weighted mean (rounded to two
\* decimals) and the bonus applies: the credit is 'Exemplary performance'
\* when that mean is 75% or more, and 3 (tier 2 with the bonus) otherwise.
C7_MeanAndBonus ==
    TwoGrids8060 =>
        /\ summary.sda = MeanOf8060
        /\ summary.credits = IF summary.sda >= 7500 THEN ExemplaryPerformance
                             ELSE NumericCredit(3)

\* the 80% grid carries three quarters of the floor area
C7_Witness ==
    /\ TwoGrids8060
    /\ pc = "returned"
    /\ summary.sda = 7500
    /\ summary.credits = ExemplaryPerformance

\* every grid of the run has a mesh in the model file
AreaForEveryGrid ==
    /\ hb_model.file
    /\ \A k \in 1..Len(grids_info) : hb_model.meshes[k] # None

\* C9: the summary is area-weighted only if every grid has floor-area data
\* and otherwise, also when only some grids have a mesh, the whole run is
\* aggregated by sensor count; in both modes the per-grid summary has an
\* entry for every grid and the building totals include every grid.
C9_WeightingPolicy ==
    Credited =>
        /\ AreaWeighted <=> AreaForEveryGrid
        /\ DOMAIN summary_grid = AllGridIds
        /\ IF AreaWeighted
           THEN summary.total_floor_area =
                    SumSeq([k \in 1..Len(grids_info) |->
                               IF hb_model.meshes[k] = None THEN 0
                               ELSE ArraySum(hb_model.meshes[k])])
           ELSE summary.total_sensor_count =
                    SumSeq([k \in 1..Len(grids_info) |-> grids_info[k].count])

\* every sensor of every grid has the same area
UniformAreas ==
    /\ AreaForEveryGrid
    /\ \A k \in 1..Len(grids_info) :
         \A s \in OptSensors :
             hb_model.meshes[k][s] = hb_model.meshes[1][1]

\* the summaries of the sensor-count branch for the pass vectors of the run
CountWeighted ==
    LeedSummary(pass_ase_grids, pass_sda_grids, grids_info,
                [k \in 1..Len(grids_info) |-> None],
                pass_sda_blinds_up_grids, pass_sda_blinds_down_grids)

\* C10: when every sensor of every grid has the same area the area-weighted
\* branch gives the building ASE and SDA and the ASE and SDA of every grid
\* that the sensor-count branch gives for the same pass/fail vectors.
C10_WeightingConsistency ==
    (Credited /\ UniformAreas) =>
        LET count == CountWeighted
        IN  /\ AreaWeighted
            /\ summary.ase = count.summary.ase
            /\ summary.sda = count.summary.sda
            /\ DOMAIN summary_grid = DOMAIN count.summary_grid
            /\ \A id \in DOMAIN summary_grid :
                  /\ summary_grid[id].ase = count.summary_grid[id].ase
                  /\ summary_grid[id].sda = count.summary_grid[id].sda

\* an area-weighted run of uniform areas where some sensors pass, some fail
C10_Witness ==
    /\ pc = "returned"
    /\ UniformAreas
    /\ Len(grids_info) = NumGrids
    /\ summary.sda > 0
    /\ summary.sda < 10000
    /\ summary.ase > 0
    /\ summary.ase < 10000
    /\ \E id \in DOMAIN summary_grid : summary_grid[id].sda # summary.sda

\* ------------------------------------- claims, shade transmittance and errors
\* C11: for every input, scalar or mapping and whatever the keys of the
\* mapping, the static apertures resolve to the multiplier 1: their
\* candidate list is [1, 1], their entry of the global map is 1 and no
\* enumerated combination attenuates them.
C11_StaticNeverAttenuated ==
    /\ Static \in DOMAIN shade_transmittances =>
           shade_transmittances[Static] = <<100, 100>>
    /\ Static \in DOMAIN shd_trans_dict => shd_trans_dict[Static] = 100
    /\ (~use_states /\ Static \in Range(light_paths)) =>
           \A c \in 1..Len(combinations) : combinations[c][Static] = 100

\* every explicit multiplier of the input satisfies 1 > value > 0
ValidShade ==
    \A v \in ExplicitValues(shade_transmittance) : v > 0 /\ v < 100

\* C12: an explicit shade transmittance outside 1 > value > 0 is a
\* configuration error that aborts the run: no grid is processed and no
\* schedule entry is derived from such a value.
C12_InvalidValueAborts ==
    ~ValidShade =>
        /\ grid_states_schedule = EmptyDict
        /\ states_schedule = EmptyDict
        /\ fail_to_comply = EmptyDict

\* C13: a call with a custom states_schedule raises the not-implemented
\* error at once: nothing is derived, fetched, computed or returned, and the
\* results object of the caller is left as it was before the call.
C13_CustomScheduleAborts ==
    [][(pc = "start" /\ states_schedule # None) =>
          /\ pc' = "raised"
          /\ error' = "NotImplementedError"
          /\ results' = results
          /\ cache' = cache
          /\ fail_to_comply' = fail_to_comply
          /\ pass_ase_grids' = pass_ase_grids
          /\ pass_sda_grids' = pass_sda_grids
          /\ summary' = summary
          /\ returned' = returned]_vars

\* the loop of the annual sunlight exposure has run
AseComputed ==
    /\ pass_ase_grids # <<>>
    /\ Len(pass_ase_grids) = ZipLen(<<Len(grids_info), Len(grid_areas)>>)

\* the loop of the spatial daylight autonomy has run
SdaComputed ==
    /\ pass_sda_grids # <<>>
    /\ Len(pass_sda_grids) = Len(grids_info)

\* C15: the direct-illuminance cache is released after the ASE of the last
\* grid and before the first total-illuminance matrix is fetched; the
\* total-illuminance cache is released after the SDA of the last grid and
\* before the summary is built; no matrix of a type is fetched after the
\* cache of that type has been released.
C15_CacheReleaseOrder ==
    /\ cache.direct = "released" => AseComputed
    /\ cache.total # "unused" => cache.direct = "released"
    /\ cache.total = "released" => SdaComputed
    /\ summary # EmptyDict => cache.total = "released"
    /\ pc \in {"summary", "credits", "return", "returned"} =>
           (cache.direct = "released" /\ cache.total = "released")
    /\ cache.direct # "refetched"
    /\ cache.total # "refetched"

\* a run of all grids that has returned with both caches released
C15_Witness ==
    /\ pc = "returned"
    /\ Len(grids_info) = NumGrids
    /\ AseComputed
    /\ SdaComputed
    /\ cache = [direct |-> "released", total |-> "released"]

\* ---------------------------------------------------- claims, the SDA loop
\* the total illuminance of a light path at a sensor with its aperture group
\* open, respectively closed (scaled by 100)
OpenIlluminance(lp, s) == array_total[lp][0][s] * 100

ClosedIlluminance(lp, s) ==
    IF lp = Static THEN array_total[lp][0][s] * 100
    ELSE IF use_states THEN array_total[lp][1][s] * 100
    ELSE array_total[lp][0][s] * shd_trans_dict[lp]

\* C14: in both modes the always-open and the always-closed baseline of a
\* grid are, for every sensor and occupied hour, the sum over the light
\* paths of the grid of the total illuminance of the light path in its open
\* state, respectively its closed state, every light path counted once.
C14_BaselinesCountEachPathOnce ==
    pc = "sda_da" =>
        \A s \in OptSensors :
            /\ array_blinds_up[s] =
                   SumSet([lp \in Range(light_paths) |->
                              OpenIlluminance(lp, s)], Range(light_paths))
            /\ array_blinds_down[s] =
                   SumSet([lp \in Range(light_paths) |->
                              ClosedIlluminance(lp, s)], Range(light_paths))

\* ------------------------------------------- claims, the selection of a grid
\* the combination of index c keeps the overlit fraction at or below 2%
Valid(c) == ~AboveTwoPercent(Overlit(combinations[c]))

\* the occupied columns among the first n sun-up hours
OccupiedColumns(n) == {t \in 1..n : OccPattern[t]}

\* C16: at every occupied hour of a grid with at least one valid combination
\* the selected combination is valid and has the maximum overlit fraction of
\* the valid ones, and it is the first such combination of the enumeration;
\* every controllable aperture group of the grid has exactly one schedule
\* entry per occupied hour, the value of the selected combination, and the
\* static apertures have none.
C16_FirstMaximumSelected ==
    /\ (pc = "column" /\ OccPattern[i]
            /\ \E c \in 1..Len(combinations) : Valid(c)) =>
          LET k == Last(max_indices)
          IN  /\ Valid(k)
              /\ \A c \in 1..Len(combinations) :
                    Valid(c) =>
                        Overlit(combinations[c]) <= Overlit(combinations[k])
              /\ \A c \in 1..(k - 1) :
                    Valid(c) =>
                        Overlit(combinations[c]) < Overlit(combinations[k])
              /\ \A lp \in Range(light_paths) \ {Static} :
                    Last(grid_states_schedule[lp]) = combinations[k][lp]
    /\ pc = "column" =>
          /\ DOMAIN grid_states_schedule =
                 IF OccupiedColumns(i) = {} THEN {}
                 ELSE Range(light_paths) \ {Static}
          /\ \A lp \in DOMAIN grid_states_schedule :
                 Len(grid_states_schedule[lp]) = Cardinality(OccupiedColumns(i))
    /\ Static \notin DOMAIN states_schedule

\* an occupied hour where the fully open combination is not valid and two
\* later combinations tie on the maximum, in a grid with static apertures
C16_Witness ==
    /\ pc = "column"
    /\ OccPattern[i]
    /\ Static \in Range(light_paths)
    /\ ~Valid(1)
    /\ Last(max_indices) > 1
    /\ \E c \in (Last(max_indices) + 1)..Len(combinations) :
          /\ Valid(c)
          /\ Overlit(combinations[c]) =
                 Overlit(combinations[Last(max_indices)])
          /\ combinations[c] # combinations[Last(max_indices)]

\* C17: a sensor counts as overlit only when its combined direct
\* illuminance is strictly above the threshold of 1000 lux, as in the hourly
\* percentage of the ASE: the overlit fraction of every combination counts
\* the sensors above 1000 lux, and with every group open it is the count of
\* the ASE hourly percentage.
C17_StrictlyAboveThreshold ==
    pc = "column" =>
        /\ \A c \in 1..Len(combinations) :
              array_combinations[c] =
                  MaskedPercentage(
                      Cardinality({s \in Sensors :
                          CombinationArray(array, combinations[c],
                                           light_paths, s, use_states)
                              > DirectThreshold * 100}),
                      grid_info.count)
        /\ Overlit(combinations[1]) = AseCountAbove(array, light_paths)

\* ------------------------------------------ claims, the building-wide schedule
\* the hour of the t-th occupied column is in the record of grid k
Recorded(k, t) ==
    /\ k \in DOMAIN fail_to_comply
    /\ OccupancyHoys[t] \in Range(fail_to_comply[k])

\* the combination c of grid k is the configuration of the merged schedule
\* at the t-th occupied column: every controllable group of the grid at its
\* merged value, the static apertures unshaded
IsMergedConfiguration(k, c, t) ==
    \A lp \in DOMAIN grid_combinations[k][c] :
        grid_combinations[k][c][lp] =
            IF lp = Static THEN 100 ELSE states_schedule[lp][t]

\* grid k keeps the 2% rule under the merged schedule at the t-th occupied
\* column
CompliesWhenMerged(k, t) ==
    /\ \E c \in 1..Len(grid_combinations[k]) : IsMergedConfiguration(k, c, t)
    /\ \A c \in 1..Len(grid_combinations[k]) :
          IsMergedConfiguration(k, c, t) =>
              grid_array_combinations[k][t][c] # NegInf

\* C18: in transmittance mode with multipliers in (0, 1), after the merge of
\* the grids by the minimum every grid still keeps the 2% rule at every
\* occupied hour that is not in its compliance-failure record.
C18_MergedScheduleComplies ==
    (pc \in {"grid", "annual"} /\ ~use_states /\ ValidShade) =>
        \A k \in DOMAIN grid_schedules :
            \A t \in 1..Len(OccupancyHoys) :
                ~Recorded(k, t) => CompliesWhenMerged(k, t)

\* the same for the inputs that do not name the static apertures
C18_WithoutStaticKey ==
    (shade_transmittance.kind = "dict"
        /\ Static \in DOMAIN shade_transmittance.map)
    \/ C18_MergedScheduleComplies

\* C19: at an occupied hour at which no enumerated combination keeps the 2%
\* rule the scheduler goes on and selects the first combination of the
\* enumeration, not the most attenuating one; in transmittance mode the first
\* combination has the multiplier 1 for every aperture group of the grid.
C19_NoneCompliesSelectsFirst ==
    (pc = "column" /\ OccPattern[i] /\ NoCombinationComplies) =>
        /\ Last(max_indices) = 1
        /\ (Len(combinations) > 1 =>
                Selected # combinations[Len(combinations)])
        /\ \A lp \in Range(light_paths) \ {Static} :
              /\ Len(grid_states_schedule[lp]) =
                     Cardinality(OccupiedColumns(i))
              /\ Last(grid_states_schedule[lp]) = combinations[1][lp]
        /\ (~use_states =>
                \A lp \in Range(light_paths) : combinations[1][lp] = 100)

\* an occupied hour of a grid with several combinations, none of which
\* complies, in transmittance mode: the schedule gets the multiplier 1
C19_Witness ==
    /\ pc = "column"
    /\ OccPattern[i]
    /\ ~use_states
    /\ Len(combinations) > 2
    /\ NoCombinationComplies
    /\ InRecord
    /\ \A lp \in Range(light_paths) \ {Static} :
          Last(grid_states_schedule[lp]) = 100

\* combination d opens every aperture group at least as much as combination
\* c, and one group more
Dominates(d, c) ==
    /\ \A lp \in Range(light_paths) : combinations[d][lp] >= combinations[c][lp]
    /\ \E lp \in Range(light_paths) : combinations[d][lp] > combinations[c][lp]

\* C20: in transmittance mode with multipliers in (0, 1) the combination a
\* grid selects at an occupied hour is not dominated by another complying
\* combination (multipliers greater or equal for every group, greater for
\* one), and the fully open combination is selected whenever it complies.
C20_SelectedNotDominated ==
    (pc = "column" /\ OccPattern[i] /\ ~use_states /\ ValidShade) =>
        /\ \A d \in 1..Len(combinations) :
              Valid(d) => ~Dominates(d, Last(max_indices))
        /\ Valid(1) =>
              /\ Last(max_indices) = 1
              /\ \A lp \in Range(light_paths) : Selected[lp] = 100

\* an occupied hour where the fully open combination does not comply, the
\* selected one shades a group and leaves another open, and a complying
\* combination that shades more has the same overlit fraction
C20_Witness ==
    /\ pc = "column"
    /\ OccPattern[i]
    /\ ~use_states
    /\ ValidShade
    /\ ~Valid(1)
    /\ Valid(Last(max_indices))
    /\ \E lp \in Range(light_paths) : Selected[lp] = 100
    /\ \E c \in 1..Len(combinations) :
          /\ Valid(c)
          /\ Dominates(Last(max_indices), c)
          /\ Overlit(combinations[c]) = Overlit(Selected)

\* ----------------------------------------------- claims, the nested baselines
\* every sensor that passes in vector a passes in vector b
Within(a, b) == \A s \in DOMAIN a : a[s] => b[s]

\* C21: in transmittance mode with multipliers in (0, 1), for every grid the
\* sensors that pass sDA with the blinds always closed pass the scheduled
\* sDA, and those pass sDA with the blinds always open; in the summary of
\* every grid sda_blinds_down <= sda <= sda_blinds_up.
C21_PassVectorsNested ==
    (~use_states /\ ValidShade) =>
        /\ \A k \in 1..Len(pass_sda_grids) :
              /\ Within(pass_sda_blinds_down_grids[k], pass_sda_grids[k])
              /\ Within(pass_sda_grids[k], pass_sda_blinds_up_grids[k])
        /\ pc = "credits" =>
              \A id \in DOMAIN summary_grid :
                  /\ summary_grid[id].sda_blinds_down <= summary_grid[id].sda
                  /\ summary_grid[id].sda <= summary_grid[id].sda_blinds_up

\* a summarised grid where the three values differ (a sensor passes only with
\* the blinds open, the other with the schedule too), and a sensor of the
\* run that passes even with the blinds closed
C21_Witness ==
    /\ pc = "credits"
    /\ ~use_states
    /\ ValidShade
    /\ \E id \in DOMAIN summary_grid :
          /\ summary_grid[id].sda_blinds_down < summary_grid[id].sda
          /\ summary_grid[id].sda < summary_grid[id].sda_blinds_up
    /\ \E k \in 1..Len(pass_sda_grids) :
          \E s \in OptSensors :
              pass_sda_blinds_down_grids[k][s]
====
